---------------------------- MODULE Spec2Model ----------------------------
(***************************************************************************)
(* Domain availability checker: the client batch loops (AbortController    *)
(* and flag variants), the streaming pipeline, the backend check handlers  *)
(* with their probes, and the categorizer.                                 *)
(*                                                                         *)
(* Spec         one run of a pipeline variant, seen from the browser       *)
(* HandlerSpec  one request to a backend check handler and its probes      *)
(* InputSpec    the text of the domain text area, from typing to the list  *)
(*              the checker hands to its batch loop                        *)
(* ReadSpec     the bytes of one event stream, from the server's writes    *)
(*              through the network's chunks to the events the page handles*)
(*                                                                         *)
(* ListSpec     one request to the whole-list streaming handler, from its  *)
(*              first frame to the close of the stream                     *)
(*                                                                         *)
(* Library calls are taken to do what the code expects of them; in         *)
(* particular the stream controller is taken to hand out a working writer. *)
(***************************************************************************)
EXTENDS Integers, Sequences, FiniteSets, TLC

\* ------------------------------------------------------------------ bounds
MaxDomains == 3
MaxBatchSize == 2
MaxProbes == 2

NamePool == <<"a.com", "b.com", "c.com", "d.com", "e.com">>

Names == {NamePool[k] : k \in 1..MaxDomains}

Availability == {"Available", "Unavailable", "Timeout", "Error"}

\* ----------------------------------------------------------------- helpers
Min(a, b) == IF a < b THEN a ELSE b

Range(s) == {s[k] : k \in 1..Len(s)}

IsInjective(s) == \A p, q \in 1..Len(s) : s[p] = s[q] => p = q

ListsUpTo(n) == UNION {[1..m -> Names] : m \in 0..n}

NameIndex(d) == CHOOSE k \in 1..Len(NamePool) : NamePool[k] = d

\* Lists up to renaming of the domains: a name that is new in the list is the
\* first unused name of the pool. Covers every pattern of repetition.
CanonicalLists ==
    {l \in ListsUpTo(MaxDomains) :
        \A k \in 1..Len(l) :
            NameIndex(l[k]) <= 1 + Cardinality({l[j] : j \in 1..(k - 1)})}

\* The lists without repetition among them.
UniqueLists == {l \in CanonicalLists : IsInjective(l)}

RECURSIVE SelectSeqBy(_, _)
SelectSeqBy(s, keep) ==
    IF s = <<>> THEN <<>>
    ELSE (IF keep[Head(s)] THEN <<Head(s)>> ELSE <<>>) \o SelectSeqBy(Tail(s), keep)

RECURSIVE Flatten(_)
Flatten(ss) == IF ss = <<>> THEN <<>> ELSE Head(ss) \o Flatten(Tail(ss))

Count(s, x) == Cardinality({k \in 1..Len(s) : s[k] = x})

\* A slice that takes one element too many.
sliceOverlapping(s, from, to) == SubSeq(s, from + 1, Min(to + 1, Len(s)))

\* Array.prototype.slice(from, to) on a 0-based index pair
slice(s, from, to) == SubSeq(s, from + 1, Min(to, Len(s)))

\* ------------------------------------------------------------------- state
VARIABLES
    variant,                 \* which pipeline this page runs
    BATCH_SIZE,              \* the constant of the batch loop
    domainInput,             \* the text area as the checker reads it: [...new Set(...)]
    currentMode,             \* 'checker' | 'generator', as the mode buttons left it
    pc,                      \* where the click handler is suspended
    domains,                 \* the list handed to the batch loop
    i,                       \* loop index of the batch loop
    checkedCount,
    allAvailableDomains,
    isCancelled,             \* local flag of the AbortController variant
    currentAbortController,  \* "null" | "live" | "aborted"
    isProcessingCancelled,   \* module-level flag of the flag variants
    loading,                 \* setLoading state (analyze disabled, cancel shown)
    placeholder,             \* text shown in placeholderResults
    summary,                 \* what updateSummary last rendered
    resultsView,             \* groups rendered by displayResults
    actionsShown,            \* displayActions ran
    inflight,                \* the chunk whose request (or probes) is awaited
    server,                  \* where the streaming server's start() is suspended
    frames,                  \* frames written to the stream and not yet read
    outcome,                 \* path by which the last handler ended
    sent,                    \* history: chunks handed to the availability check
    reported,                \* history: successive checkedCount values reported
    probed,                  \* history: every {domain, availability} received
    lateStart,               \* history: a chunk was started with the signal set
    cancelBeforeFirst,       \* history: the signal was set before any chunk could start
    catCall,                 \* history: the categorizeDomains call of this run
    genCall,                 \* history: the generateDomainIdeas call of this run
    lastWritten,             \* history: event of the last frame the server wrote
    lingering,               \* an earlier click handler still awaits its last read
    endpoint,                \* which backend module serves the request
    req,                     \* the request: method and the 'domains' of its body
    credentials,             \* the deployment's API keys are set
    handlerPc,               \* where the backend handler is suspended
    probes,                  \* the checkDomainAvailability calls of the request
    response,                \* what the handler answered
    inputValue,              \* domainInput.value, the text itself
    inputPc,                 \* where the click handler stands with that text
    handed,                  \* history: the tokens handed to the batch loop
    blurred,                 \* history: the text was last written by the blur handler
    streamFrames,            \* the frames the streaming server writes, in order
    nWritten,                \* how many of them it has written
    wire,                    \* bytes written and not yet read by the page
    buffer,                  \* 'buffer' of the read loop
    handled,                 \* history: the events handed to handleStreamEvent
    readPc,                  \* where the read loop stands
    readsAfterCancel,        \* history: reads that resolved after the flag was set
    streamReq,               \* body of the request to the whole-list streaming handler
    domainsToCheck,          \* 'domainsToCheck' of that handler
    written,                 \* the frames it has written, in order
    checkPromises,           \* the entries of the list whose check has not settled
    startPc                  \* where the handler's stream start stands

pageVars == <<variant, BATCH_SIZE, domainInput, currentMode, pc, domains, i,
              checkedCount, allAvailableDomains, isCancelled, currentAbortController,
              isProcessingCancelled, loading, placeholder, summary, resultsView,
              actionsShown, inflight, server, frames, outcome, sent, reported,
              probed, lateStart, cancelBeforeFirst, catCall, genCall, lastWritten,
              lingering>>

backendVars == <<endpoint, req, credentials, handlerPc, probes, response>>

inputVars == <<inputValue, inputPc, handed, blurred>>

readVars == <<streamFrames, nWritten, wire, buffer, handled, readPc, readsAfterCancel>>

listVars == <<streamReq, domainsToCheck, written, checkPromises, startPc>>

vars == <<pageVars, backendVars, inputVars, readVars, listVars>>

\* The pages that run the batch loop in the browser ...
ClientVariants == {"controller", "flagSdk", "flagBackend"}

\* ... and the page that reads the stream of the server-side batch loop.
Variants == ClientVariants \cup {"streamBatch"}

NoSummary == [shown |-> FALSE, checked |-> 0, total |-> 0, available |-> 0]

NoCall == [called |-> FALSE, input |-> <<>>, upstream |-> "none",
           threw |-> FALSE, value |-> <<>>]

NoGeneration == [called |-> FALSE, upstream |-> "none", threw |-> FALSE,
                 alerted |-> FALSE]

\* The handler-visible state as one record, so that the synchronous part of a
\* handler (everything between two awaits) is a function from record to record.
Cur ==
    [currentMode |-> currentMode, pc |-> pc, domains |-> domains, i |-> i,
     checkedCount |-> checkedCount, allAvailableDomains |-> allAvailableDomains,
     isCancelled |-> isCancelled, currentAbortController |-> currentAbortController,
     isProcessingCancelled |-> isProcessingCancelled, loading |-> loading,
     placeholder |-> placeholder, summary |-> summary, resultsView |-> resultsView,
     actionsShown |-> actionsShown, inflight |-> inflight, server |-> server,
     frames |-> frames, outcome |-> outcome,
     sent |-> sent, reported |-> reported, probed |-> probed,
     lateStart |-> lateStart, cancelBeforeFirst |-> cancelBeforeFirst,
     catCall |-> catCall, genCall |-> genCall, lastWritten |-> lastWritten,
     lingering |-> lingering]

\* (the record is bound once, so that it is computed once per step)
Become(next) ==
    \E s \in {next} :
        /\ currentMode' = s.currentMode
        /\ pc' = s.pc
        /\ domains' = s.domains
        /\ i' = s.i
        /\ checkedCount' = s.checkedCount
        /\ allAvailableDomains' = s.allAvailableDomains
        /\ isCancelled' = s.isCancelled
        /\ currentAbortController' = s.currentAbortController
        /\ isProcessingCancelled' = s.isProcessingCancelled
        /\ loading' = s.loading
        /\ placeholder' = s.placeholder
        /\ summary' = s.summary
        /\ resultsView' = s.resultsView
        /\ actionsShown' = s.actionsShown
        /\ inflight' = s.inflight
        /\ server' = s.server
        /\ frames' = s.frames
        /\ outcome' = s.outcome
        /\ sent' = s.sent
        /\ reported' = s.reported
        /\ probed' = s.probed
        /\ lateStart' = s.lateStart
        /\ cancelBeforeFirst' = s.cancelBeforeFirst
        /\ catCall' = s.catCall
        /\ genCall' = s.genCall
        /\ lastWritten' = s.lastWritten
        /\ lingering' = s.lingering
        /\ UNCHANGED <<variant, BATCH_SIZE, domainInput>>
        /\ UNCHANGED backendVars
        /\ UNCHANGED inputVars
        /\ UNCHANGED readVars
        /\ UNCHANGED listVars

\* Either cancellation signal of the page is set (history bookkeeping only).
SignalSet(s) == s.currentAbortController = "aborted" \/ s.isProcessingCancelled

\* ------------------------------------------------------------ UI functions
setLoading(s, isLoading) == [s EXCEPT !.loading = isLoading]

clearResults(s) ==
    [s EXCEPT !.resultsView = <<>>, !.summary = NoSummary,
              !.actionsShown = FALSE, !.placeholder = "initial"]

updateSummary(s, checked, total, availableCount) ==
    [s EXCEPT !.summary = [shown |-> TRUE, checked |-> checked, total |-> total,
                           available |-> availableCount]]

displayResults(s, categorizedDomains) ==
    IF categorizedDomains = <<>> THEN s
    ELSE [s EXCEPT !.resultsView = categorizedDomains]

displayActions(s) == [s EXCEPT !.actionsShown = TRUE]

\* ------------------------------------------------- requests of the client
ResultLists(batch, outcomes) ==
    {[k \in 1..Len(batch) |-> [domain |-> batch[k], availability |-> a[k]]] :
        a \in [1..Len(batch) -> outcomes]}

\* What the backend can answer to a POST {domains: batch}.
BackendReplies(batch) ==
    {[kind |-> "ok", results |-> r] : r \in ResultLists(batch, Availability)}
    \cup {[kind |-> "http_error", results |-> <<>>],
          [kind |-> "network_error", results |-> <<>>]}

\* A request that resolves as soon as its first check has settled.
checkDomainsFirstSettled(reply) ==
    IF reply.kind = "ok"
    THEN [threw |-> FALSE, value |-> SubSeq(reply.results, 1, 1)]
    ELSE [threw |-> TRUE, value |-> <<>>]

checkDomainsWithBackend(reply) ==
    IF reply.kind = "ok"
    THEN [threw |-> FALSE, value |-> reply.results]
    ELSE [threw |-> TRUE, value |-> <<>>]

\* What the generative service (or the backend in front of it) can answer.
GenReplies ==
    {[kind |-> "ok", lines |-> l] : l \in CanonicalLists}
    \cup {[kind |-> "upstream_error", lines |-> <<>>],
          [kind |-> "network_error", lines |-> <<>>]}

generateDomainIdeas(v, reply) ==
    IF v = "flagBackend"
    THEN \* fetch is not inside a try: a rejected fetch rejects the call
         CASE reply.kind = "network_error" ->
                  [threw |-> TRUE, value |-> <<>>, alerted |-> FALSE]
           [] reply.kind = "upstream_error" ->
                  [threw |-> FALSE, value |-> <<>>, alerted |-> TRUE]
           [] OTHER -> [threw |-> FALSE, value |-> reply.lines, alerted |-> FALSE]
    ELSE IF reply.kind = "ok"
         THEN [threw |-> FALSE, value |-> reply.lines, alerted |-> FALSE]
         ELSE [threw |-> FALSE, value |-> <<>>, alerted |-> TRUE]

\* -------------------------------------------------------------- categorizer
CatBodies == {"json", "json_empty", "fenced_json", "malformed"}

CatReplies(v) ==
    {[kind |-> "ok", body |-> b] : b \in CatBodies}
    \cup {[kind |-> "request_failed", body |-> "none"]}
    \cup (IF v = "flagBackend" THEN {[kind |-> "http_error", body |-> "none"]} ELSE {})

\* jsonString.trim().replace(/^```json\s*|```\s*$/g, '')
StripFences(body) == IF body = "fenced_json" THEN "json" ELSE body

\* The grouping a well-formed response carries.
ParsedGroups(body, doms) ==
    IF body = "json" THEN <<[category |-> "Brandable", domains |-> doms]>> ELSE <<>>

JSONparse(body, doms) ==
    IF body \in {"json", "json_empty"}
    THEN [threw |-> FALSE, value |-> ParsedGroups(body, doms)]
    ELSE [threw |-> TRUE, value |-> <<>>]

Fallback(doms) == <<[category |-> "Available Domains", domains |-> doms]>>

safeJsonParse(jsonString, doms) == JSONparse(StripFences(jsonString), doms)

categorizeDomains(v, doms, reply) ==
    IF doms = <<>> THEN [threw |-> FALSE, value |-> <<>>]
    ELSE CASE v = "controller" ->
                  IF reply.kind # "ok" THEN [threw |-> FALSE, value |-> Fallback(doms)]
                  ELSE LET r == safeJsonParse(reply.body, doms)
                       IN  IF r.threw THEN [threw |-> FALSE, value |-> Fallback(doms)]
                           ELSE r
           [] v = "flagSdk" ->
                  IF reply.kind # "ok" THEN [threw |-> FALSE, value |-> Fallback(doms)]
                  ELSE LET r == JSONparse(reply.body, doms)
                       IN  IF r.threw THEN [threw |-> FALSE, value |-> Fallback(doms)]
                           ELSE r
           [] OTHER ->
                  \* backend variant: 'return response.json()' leaves the try
                  \* block before the body is decoded
                  IF reply.kind # "ok" THEN [threw |-> FALSE, value |-> Fallback(doms)]
                  ELSE JSONparse(reply.body, doms)

\* ------------------------------------------------ the click handler's parts
\* A loop that never looks at the signal.
NeverRequested(v, s) == FALSE

\* The loop's cancellation check: signal.aborted, or the module-level flag.
CancelRequested(v, s) ==
    IF v = "controller" THEN s.currentAbortController = "aborted"
    ELSE s.isProcessingCancelled

\* A counter that is not advanced.
StaleCheckedCount(v, checked, batch, total) == checked

\* checkedCount after a chunk.
NextCheckedCount(v, checked, batch, total) ==
    IF v = "controller" THEN Min(checked + Len(batch), total)
    ELSE checked + Len(batch)

\* results.filter(r => r.availability === 'Available').map(r => r.domain)
availableInBatch(results) ==
    LET keep == [k \in 1..Len(results) |-> results[k].availability = "Available"]
        idx  == SelectSeqBy([k \in 1..Len(results) |-> k], keep)
    IN  [k \in 1..Len(idx) |-> results[idx[k]].domain]

\* A finally that leaves the loading state as it is.
FinallyNoReset(v, s) == [s EXCEPT !.pc = "idle"]

\* finally { setLoading(false); currentAbortController = null; }
Finally(v, s) ==
    [setLoading(s, FALSE) EXCEPT
        !.pc = "idle",
        !.currentAbortController = IF v = "controller" THEN "null" ELSE @]

\* A handler end that wipes what the run has shown.
HandlerEndClearing(v, s, how, text) ==
    [clearResults(Finally(v, s)) EXCEPT !.outcome = how, !.placeholder = text]

HandlerEnd(v, s, how, text) ==
    [Finally(v, s) EXCEPT !.outcome = how, !.placeholder = text]

\* catch (error) { ... } of the click handler
Catch(v, s, errorName) ==
    \* (the request that was awaited is gone)
    LET s0 == [s EXCEPT !.inflight = <<>>]
    IN  IF v = "controller" /\ errorName = "AbortError"
        THEN HandlerEnd(v, s0, "cancelled", "cancelled")
        ELSE HandlerEnd(v, s0, "failed", "error")

\* The statements after the for loop.
AfterLoop(v, s) ==
    IF v = "controller"
    THEN IF s.isCancelled THEN HandlerEnd(v, s, "cancelled", "cancelled")
         ELSE IF s.allAvailableDomains # <<>> THEN [s EXCEPT !.pc = "categorizing"]
         ELSE HandlerEnd(v, s, "completed", "none_found")
    ELSE IF s.allAvailableDomains # <<>> THEN [s EXCEPT !.pc = "categorizing"]
         ELSE IF s.isProcessingCancelled
              THEN HandlerEnd(v, s, "cancelled", "cancelled")
              ELSE HandlerEnd(v, s, "completed", "none_found")

\* One pass through the head of 'for (let i = ...; i < totalDomains; ...)':
\* up to the await of the chunk's request, or out of the loop.
BatchLoop(v, size, s) ==
    IF s.i < Len(s.domains)
    THEN IF CancelRequested(v, s)
         THEN AfterLoop(v, [s EXCEPT !.isCancelled = (v = "controller")])
         ELSE LET batch == slice(s.domains, s.i, s.i + size)
              IN  [s EXCEPT !.pc = "awaitBatch", !.inflight = batch,
                            !.sent = Append(@, batch),
                            !.lateStart = @ \/ SignalSet(s)]
    ELSE AfterLoop(v, s)

\* From 'const BATCH_SIZE' to the first await of the loop.
StartChecking(v, size, s, list) ==
    LET s1 == [s EXCEPT !.domains = list, !.checkedCount = 0, !.i = 0,
                        !.allAvailableDomains = <<>>]
    IN  BatchLoop(v, size, updateSummary([s1 EXCEPT !.reported = Append(@, 0)],
                                         0, Len(list), 0))

\* The loop body after 'await checkDomainsWithBackend(batch)', and the next head.
ChunkSettled(v, size, s, reply) ==
    LET r == checkDomainsWithBackend(reply)
    IN  IF r.threw THEN Catch(v, s, "Error")
        ELSE LET avail   == s.allAvailableDomains \o availableInBatch(r.value)
                 checked == NextCheckedCount(v, s.checkedCount, s.inflight,
                                             Len(s.domains))
                 s1 == [s EXCEPT !.allAvailableDomains = avail,
                                 !.checkedCount = checked,
                                 !.probed = @ \o r.value,
                                 !.reported = Append(@, checked),
                                 !.inflight = <<>>,
                                 !.i = @ + size]
             IN  BatchLoop(v, size, updateSummary(s1, checked, Len(s.domains), Len(avail)))

\* The handler's first statements.
Begin(s, mode) ==
    [clearResults(setLoading(s, TRUE)) EXCEPT
        !.currentMode = mode, !.isCancelled = FALSE,
        !.currentAbortController = IF variant = "controller" THEN "live" ELSE @,
        !.isProcessingCancelled = IF variant = "controller" THEN @ ELSE FALSE,
        !.domains = <<>>, !.i = 0, !.checkedCount = 0, !.allAvailableDomains = <<>>,
        !.inflight = <<>>, !.server = "none", !.frames = <<>>,
        !.outcome = "running", !.sent = <<>>, !.reported = <<>>, !.probed = <<>>,
        !.lateStart = FALSE, !.cancelBeforeFirst = FALSE, !.catCall = NoCall,
        !.genCall = NoGeneration, !.lastWritten = "none",
        \* a handler that is still reading is left behind by this click
        !.lingering = @ \/ s.pc = "reading"]

\* ------------------------------------------- the streaming server's start()
\* Frames carry {event, data}; the data fields of all events share one record.
\* 'status' frames only set the button text, which is not part of the state,
\* and are left out.
Frame(event, checked, total, available, categorized, list) ==
    [event |-> event, checked |-> checked, total |-> total, available |-> available,
     categorized |-> categorized, domains |-> list]

\* writer.write(...): a frame reaches the reader as long as it is attached.
writeToStream(s, frame) ==
    IF s.pc \in {"fetching", "reading"}
    THEN [s EXCEPT !.frames = Append(@, frame), !.lastWritten = frame.event]
    ELSE [s EXCEPT !.lastWritten = frame.event]

\* The prober of the streaming server has no timer.
StreamAvailability == {"Available", "Unavailable", "Error"}

\* [...new Set(generatedDomains)]
RECURSIVE Dedupe(_)
Dedupe(l) ==
    IF l = <<>> THEN <<>>
    ELSE LET front == Dedupe(SubSeq(l, 1, Len(l) - 1))
             last  == l[Len(l)]
         IN  IF last \in Range(front) THEN front ELSE Append(front, last)

\* A progress count without the clamp.
ProgressUnclamped(at, size, total) == at + size

\* Math.min(i + BATCH_SIZE, totalDomains)
ProgressChecked(at, size, total) == Min(at + size, total)

\* catch (error) { writeToStream(..., 'error', ...) } finally { writer.close() }
StreamFails(s) ==
    [writeToStream(s, Frame("error", 0, 0, 0, <<>>, <<>>)) EXCEPT
        !.server = "failed", !.inflight = <<>>]

\* Head of the server's for loop, up to 'await Promise.all(promises)', or the
\* statements after the loop up to the next await or the end of start().
StreamLoop(size, s) ==
    IF s.i < Len(s.domains)
    THEN LET batch == slice(s.domains, s.i, s.i + size)
         IN  [s EXCEPT !.server = "checking", !.inflight = batch,
                       !.sent = Append(@, batch),
                       !.lateStart = @ \/ SignalSet(s)]
    ELSE IF s.allAvailableDomains # <<>>
         THEN [s EXCEPT !.server = "categorizing", !.inflight = <<>>]
         ELSE [writeToStream(s, Frame("no_results", 0, 0, 0, <<>>, <<>>)) EXCEPT
                  !.server = "done", !.inflight = <<>>]

\* 'if (domainsToCheck.length === 0) throw ...' and the start of Step 2.
StreamCheck(size, s, list) ==
    IF list = <<>> THEN StreamFails(s)
    ELSE StreamLoop(size, [s EXCEPT !.domains = list, !.i = 0,
                                    !.allAvailableDomains = <<>>])

\* The loop body after 'await Promise.all(promises)', and the next head.
StreamChunkSettled(size, s, results) ==
    LET avail   == s.allAvailableDomains \o availableInBatch(results)
        checked == ProgressChecked(s.i, size, Len(s.domains))
        s1 == [s EXCEPT !.allAvailableDomains = avail, !.checkedCount = checked,
                        !.probed = @ \o results,
                        !.reported = Append(@, checked),
                        !.i = @ + size]
    IN  StreamLoop(size, writeToStream(s1, Frame("progress", checked, Len(s.domains),
                                                 Len(avail), <<>>, <<>>)))

\* ------------------------------------------------ the stream-reading client
handleStreamEvent(s, f) ==
    CASE f.event = "generated_domains" -> updateSummary(s, 0, Len(f.domains), 0)
      [] f.event = "progress" -> updateSummary(s, f.checked, f.total, f.available)
      [] f.event = "results" -> displayActions(displayResults(s, f.categorized))
      [] f.event = "no_results" -> [s EXCEPT !.placeholder = "none_found"]
      [] f.event = "error" -> setLoading([s EXCEPT !.placeholder = "error"], FALSE)
      [] OTHER -> s

\* Top of 'while (true)': the flag is looked at before every read.
ReadLoop(v, s) ==
    IF s.isProcessingCancelled
    THEN [HandlerEnd(v, s, "cancelled", "cancelled") EXCEPT !.frames = <<>>]
    ELSE [s EXCEPT !.pc = "reading"]

\* ------------------------------------------------------------------ actions
NoResponse == [status |-> 0, results |-> <<>>]

\* No request has reached a backend handler.
BackendIdle ==
    /\ endpoint = "none"
    /\ req = [method |-> "none", domains |-> <<>>]
    /\ credentials = FALSE
    /\ handlerPc = "idle"
    /\ probes = <<>>
    /\ response = NoResponse

\* Spec and HandlerSpec take the text area as the list the checker reads from
\* it (domainInput); the text itself is left empty there.
InputIdle ==
    /\ inputValue = <<>>
    /\ inputPc = "editing"
    /\ handed = <<>>
    /\ blurred = FALSE

\* Spec takes the stream frame by frame (frames); the bytes are ReadSpec's.
ReadIdle ==
    /\ streamFrames = <<>>
    /\ nWritten = 0
    /\ wire = <<>>
    /\ buffer = <<>>
    /\ handled = <<>>
    /\ readPc = "idle"
    /\ readsAfterCancel = 0

\* No request to the whole-list streaming handler.
ListIdle ==
    /\ streamReq = [mode |-> "checker", list |-> <<>>, fails |-> "no"]
    /\ domainsToCheck = <<>>
    /\ written = <<>>
    /\ checkPromises = {}
    /\ startPc = "idle"

\* The page as it is loaded.
PageLoaded ==
    /\ pc = "idle"
    /\ domains = <<>>
    /\ i = 0
    /\ checkedCount = 0
    /\ allAvailableDomains = <<>>
    /\ isCancelled = FALSE
    /\ currentAbortController = "null"
    /\ isProcessingCancelled = FALSE
    /\ loading = FALSE
    /\ placeholder = "initial"
    /\ summary = NoSummary
    /\ resultsView = <<>>
    /\ actionsShown = FALSE
    /\ inflight = <<>>
    /\ server = "none"
    /\ frames = <<>>
    /\ outcome = "none"
    /\ sent = <<>>
    /\ reported = <<>>
    /\ probed = <<>>
    /\ lateStart = FALSE
    /\ cancelBeforeFirst = FALSE
    /\ catCall = NoCall
    /\ genCall = NoGeneration
    /\ lastWritten = "none"
    /\ lingering = FALSE

Init ==
    /\ variant \in Variants
    /\ BATCH_SIZE \in 1..MaxBatchSize
    /\ currentMode \in {"checker", "generator"}
    /\ domainInput \in (IF currentMode = "checker" THEN UniqueLists ELSE {<<>>})
    /\ PageLoaded
    /\ BackendIdle
    /\ InputIdle
    /\ ReadIdle
    /\ ListIdle

\* The analyze button can be clicked: it is enabled. That is so between runs,
\* and also while the stream client is still reading after an 'error' event,
\* whose handling re-enabled the button (at most one handler is left behind).
analyzeEnabled ==
    /\ ~loading
    /\ pc = "idle" \/ (pc = "reading" /\ ~lingering)

\* analyzeButton click in checker mode.
AnalyzeChecker ==
    /\ analyzeEnabled
    /\ server \in {"none", "done", "failed"}
    /\ currentMode = "checker"
    /\ LET s0 == Begin(Cur, "checker")
       IN  IF domainInput = <<>>
           THEN Become(HandlerEnd(variant, s0, "rejected", s0.placeholder))
           ELSE IF variant = "streamBatch"
                THEN Become([s0 EXCEPT !.pc = "fetching"])
                ELSE Become(StartChecking(variant, BATCH_SIZE, s0, domainInput))

\* analyzeButton click in generator mode.
AnalyzeGenerator ==
    /\ analyzeEnabled
    /\ server \in {"none", "done", "failed"}
    /\ currentMode = "generator"
    /\ \E paramsGiven \in BOOLEAN :
        LET s0 == Begin(Cur, "generator")
        IN  IF ~paramsGiven
            THEN Become(HandlerEnd(variant, s0, "rejected", s0.placeholder))
            ELSE IF variant = "streamBatch"
                 THEN Become([s0 EXCEPT !.pc = "fetching"])
                 ELSE Become([s0 EXCEPT !.pc = "generating"])

\* 'await generateDomainIdeas(keywords, tlds)' settles.
GenerationSettles ==
    /\ variant \in ClientVariants
    /\ pc = "generating"
    /\ \E reply \in GenReplies :
        LET r  == generateDomainIdeas(variant, reply)
            s0 == [Cur EXCEPT !.cancelBeforeFirst = SignalSet(Cur),
                              !.genCall = [called |-> TRUE, upstream |-> reply.kind,
                                           threw |-> r.threw, alerted |-> r.alerted]]
        IN  IF r.threw THEN Become(Catch(variant, s0, "Error"))
            ELSE IF r.value = <<>>
                 THEN Become(HandlerEnd(variant, s0, "empty", s0.placeholder))
                 ELSE Become(StartChecking(variant, BATCH_SIZE, s0, r.value))

\* The request of the chunk in flight settles.
BackendResponds ==
    /\ variant \in ClientVariants
    /\ pc = "awaitBatch"
    /\ \E reply \in BackendReplies(inflight) :
        Become(ChunkSettled(variant, BATCH_SIZE, Cur, reply))

\* 'await categorizeDomains(allAvailableDomains)' settles.
CategorizeSettles ==
    /\ variant \in ClientVariants
    /\ pc = "categorizing"
    /\ \E reply \in CatReplies(variant) :
        LET r  == categorizeDomains(variant, allAvailableDomains, reply)
            s0 == [Cur EXCEPT !.catCall = [called |-> TRUE,
                                           input |-> allAvailableDomains,
                                           upstream |-> reply.kind \o ":" \o reply.body,
                                           threw |-> r.threw, value |-> r.value]]
        IN  IF r.threw THEN Become(Catch(variant, s0, "Error"))
            ELSE Become(HandlerEnd(variant, displayActions(displayResults(s0, r.value)),
                                   "completed", s0.placeholder))

\* cancelButton click. setLoading shows the button while loading and hides it
\* afterwards; before the first run it is as the markup leaves it, which no
\* script sets, so that a click is possible then.
CancelClick ==
    /\ loading \/ outcome = "none"
    /\ IF variant = "controller"
       THEN IF currentAbortController = "null" THEN UNCHANGED vars
            ELSE LET s0 == [Cur EXCEPT !.currentAbortController = "aborted"]
                 IN  \* an aborted fetch rejects with AbortError
                     IF pc = "awaitBatch" THEN Become(Catch(variant, s0, "AbortError"))
                     ELSE Become(s0)
       ELSE Become([Cur EXCEPT !.isProcessingCancelled = TRUE])

\* The POST to the streaming endpoint is answered: start(controller) has run up
\* to its first await and the response with the stream reaches the page, or
\* the request fails.
StreamOpens ==
    /\ variant = "streamBatch"
    /\ pc = "fetching"
    /\ \E ok \in BOOLEAN :
        IF ~ok THEN Become(Catch(variant, Cur, "Error"))
        ELSE LET s1 == IF currentMode = "generator"
                       THEN [Cur EXCEPT !.server = "generating"]
                       ELSE StreamCheck(BATCH_SIZE, Cur, domainInput)
             IN  Become(ReadLoop(variant, s1))

\* 'await ai.models.generateContent(...)' of Step 1 settles on the server.
StreamGenerationSettles ==
    /\ server = "generating"
    /\ \E reply \in GenReplies :
        IF reply.kind # "ok" THEN Become(StreamFails(Cur))
        ELSE LET list == Dedupe(reply.lines)
                 s1 == writeToStream(Cur, Frame("generated_domains", 0, 0, 0, <<>>, list))
             IN  Become(StreamCheck(BATCH_SIZE, s1, list))

\* 'await Promise.all(promises)' of the server's chunk settles.
StreamChunkSettles ==
    /\ server = "checking"
    /\ \E results \in ResultLists(inflight, StreamAvailability) :
        Become(StreamChunkSettled(BATCH_SIZE, Cur, results))

\* 'await ai.models.generateContent(...)' of Step 3 settles on the server.
StreamCategorizeSettles ==
    /\ server = "categorizing"
    /\ \E reply \in CatReplies("flagSdk") :
        LET r == JSONparse(reply.body, allAvailableDomains)
        IN  IF reply.kind # "ok" \/ r.threw THEN Become(StreamFails(Cur))
            ELSE Become([writeToStream(Cur, Frame("results", 0, 0, 0, r.value,
                                                  allAvailableDomains))
                            EXCEPT !.server = "done"])

\* 'await reader.read()' yields a frame: it is handled, then the loop turns.
ClientReads ==
    /\ pc = "reading"
    /\ frames # <<>>
    /\ Become(ReadLoop(variant, handleStreamEvent([Cur EXCEPT !.frames = Tail(@)],
                                                  Head(frames))))

\* 'await reader.read()' yields done.
ClientReadDone ==
    /\ pc = "reading"
    /\ frames = <<>>
    /\ server \in {"done", "failed"}
    /\ Become(HandlerEnd(variant, Cur,
                         IF placeholder = "error" THEN "failed" ELSE "completed",
                         placeholder))

\* 'await reader.read()' of a handler that was left behind yields done (its
\* stream had ended with the 'error' frame): break, then finally.
LingeringReadDone ==
    /\ lingering
    /\ Become([setLoading(Cur, FALSE) EXCEPT !.lingering = FALSE])

Next ==
    \/ AnalyzeChecker
    \/ AnalyzeGenerator
    \/ GenerationSettles
    \/ BackendResponds
    \/ CategorizeSettles
    \/ CancelClick
    \/ StreamOpens
    \/ StreamGenerationSettles
    \/ StreamChunkSettles
    \/ StreamCategorizeSettles
    \/ ClientReads
    \/ ClientReadDone
    \/ LingeringReadDone

Spec == Init /\ [][Next]_vars

\* ------------------------------------------------------- claims on the runs
\* The batch loop of the run (browser or streaming server) ran to its end.
LoopDone == domains # <<>> /\ i >= Len(domains)

\* The k-th consecutive slice of the list.
ChunkAt(k) == SubSeq(domains, (k - 1) * BATCH_SIZE + 1, Min(k * BATCH_SIZE, Len(domains)))

\* C1: the chunks handed to the availability check are the consecutive slices
\* of the list, and once the loop of a list of unique domains has run to its
\* end every domain of the list has been sent in exactly one chunk, once.
Inv_C1_Coverage ==
    /\ \A k \in 1..Len(sent) : sent[k] = ChunkAt(k) /\ sent[k] # <<>>
    /\ (LoopDone /\ IsInjective(domains)) =>
           /\ Flatten(sent) = domains
           /\ \A d \in Range(domains) :
                  Cardinality({k \in 1..Len(sent) : d \in Range(sent[k])}) = 1

Wit_C1_Coverage ==
    /\ LoopDone /\ IsInjective(domains)
    /\ Len(domains) >= 3 /\ Len(sent) >= 2
    /\ outcome = "completed"

\* C2: the checkedCount values reported in one run never decrease and never
\* exceed the number of domains N of the run; when the loop has run to its end
\* the last value reported is N.
Inv_C2_Progress ==
    /\ \A k \in 1..Len(reported) :
           /\ reported[k] <= Len(domains)
           /\ k > 1 => reported[k - 1] <= reported[k]
    /\ LoopDone => /\ reported # <<>>
                   /\ reported[Len(reported)] = Len(domains)
                   /\ checkedCount = Len(domains)

Wit_C2_Progress ==
    /\ LoopDone /\ Len(reported) >= 3
    /\ reported[Len(reported)] = Len(domains)
    /\ outcome = "completed"

\* C3 (as amended): when the cancellation signal was set while names were
\* being generated and the generation produced a non-empty list, no chunk is
\* sent and the run has ended as cancelled with no available domains.
Inv_C3_CancelBeforeFirst ==
    (variant \in ClientVariants /\ cancelBeforeFirst /\ domains # <<>>) =>
        /\ sent = <<>>
        /\ allAvailableDomains = <<>>
        /\ pc = "idle" /\ outcome = "cancelled" /\ placeholder = "cancelled"

Wit_C3_CancelBeforeFirst ==
    /\ variant \in ClientVariants /\ cancelBeforeFirst /\ domains # <<>>
    /\ pc = "idle" /\ outcome = "cancelled"

\* C3 as stated: whenever the signal was set before the first chunk, the run
\* sends nothing and ends as cancelled.
Orig_C3_CancelBeforeFirst ==
    (variant \in ClientVariants /\ cancelBeforeFirst /\ pc = "idle") =>
        /\ sent = <<>>
        /\ allAvailableDomains = <<>>
        /\ outcome = "cancelled"

Orig_C9_AvailableExactlyOnce ==
    (variant \in ClientVariants /\ LoopDone) =>
        /\ checkedCount = Len(domains)
        /\ \A k \in 1..Len(probed) :
               IF probed[k].availability = "Available"
               THEN Count(allAvailableDomains, probed[k].domain) = 1
               ELSE probed[k].domain \notin Range(allAvailableDomains)

\* The categorization request failed or its response cannot be decoded.
CatFailed(call) ==
    call.upstream \in {"request_failed:none", "http_error:none", "ok:malformed"}

\* C10 as stated: a categorizeDomains call on a non-empty list whose request
\* failed or whose response is undecodable resolves to the single fallback
\* group holding the input list.
Orig_C10_Fallback ==
    (catCall.called /\ catCall.input # <<>> /\ CatFailed(catCall)) =>
        /\ ~catCall.threw
        /\ catCall.value = Fallback(catCall.input)

\* C11 as stated: a run whose availability checks all finished and found at
\* least one available domain does not end in the failed state, whatever the
\* categorization call does.
Orig_C11_CategorizationNeverFails ==
    (LoopDone /\ allAvailableDomains # <<>>) =>
        /\ outcome # "failed"
        /\ server # "failed"

\* C12 as stated: when the name-generation request of a browser generator
\* fails, the generator yields an empty list with a warning and the run stops
\* gracefully: no chunk is sent, the run is not failed, loading is reset.
Orig_C12_GenerationFailureGraceful ==
    (variant \in ClientVariants /\ genCall.called /\ genCall.upstream # "ok") =>
        /\ ~genCall.threw /\ genCall.alerted
        /\ sent = <<>>
        /\ outcome # "failed"
        /\ ~loading

\* C13 as stated: the list of generated names handed to the availability
\* check holds no name twice.
Orig_C13_GeneratedNamesUnique ==
    (currentMode = "generator" /\ sent # <<>>) => IsInjective(domains)

\* C17 as stated: when the streaming server has closed its stream, the last
\* frame it wrote is the terminal frame 'finished' or 'error'.
Orig_C17_TerminalFrame ==
    server \in {"done", "failed"} => lastWritten \in {"finished", "error"}

\* The handler has returned from a run whose batch loop was left by the
\* cancellation signal, not by its end and not by an error.
StoppedByCancel ==
    /\ variant \in ClientVariants
    /\ pc = "idle" /\ outcome \notin {"none", "failed"}
    /\ domains # <<>> /\ i < Len(domains)

\* C20 as stated: a run stopped by the cancellation signal shows the
\* 'Process cancelled.' message and is not presented as a completed run.
Orig_C20_CancelledIsShown ==
    StoppedByCancel => placeholder = "cancelled" /\ outcome = "cancelled"

\* C21: outside the click that starts a run, no step clears or lowers the
\* checked count and the available count that the summary shows; in
\* particular the steps by which a run fails or is cancelled leave them.
Inv_C21_PartialResultsStay ==
    [][~(AnalyzeChecker \/ AnalyzeGenerator) =>
           /\ summary.shown => summary'.shown
           /\ summary'.checked >= summary.checked
           /\ summary'.available >= summary.available]_vars

Wit_C21_PartialResultsStay ==
    /\ pc = "idle" /\ outcome \in {"failed", "cancelled"}
    /\ summary.shown /\ summary.checked > 0 /\ summary.available > 0
    /\ summary.checked < summary.total

\* C22: the checks in flight are those of one chunk, the last one sent, and
\* when a chunk is sent every check of every earlier chunk has settled: the
\* results received so far are those of the earlier chunks, domain by domain.
Inv_C22_NoCrossChunkOverlap ==
    /\ inflight # <<>> => sent # <<>> /\ inflight = sent[Len(sent)]
    /\ sent # <<>> =>
           LET earlier == Flatten(SubSeq(sent, 1, Len(sent) - 1))
           IN  /\ Len(probed) >= Len(earlier)
               /\ \A k \in 1..Len(earlier) : probed[k].domain = earlier[k]
               /\ inflight # <<>> => Len(probed) = Len(earlier)

Wit_C22_NoCrossChunkOverlap ==
    /\ Len(sent) >= 2 /\ inflight # <<>>
    /\ inflight = sent[Len(sent)]
    /\ Len(probed) = Len(sent[1]) /\ Len(sent[1]) >= 2

\* C24 as stated: the analyze button is disabled for as long as a click
\* handler has not finished, so that no second run starts beside it.
Orig_C24_OneRunAtATime ==
    /\ pc # "idle" => loading
    /\ ~lingering

\* C25 as stated: a run whose batch loop was left by the cancellation signal
\* does not call the categorizer: the categorizer is called only when the loop
\* has run to its end.
Orig_C25_NoRequestAfterCancel ==
    (variant \in ClientVariants /\ (pc = "categorizing" \/ catCall.called)) =>
        LoopDone

\* C26 (as amended): whenever no click handler is running the loading state
\* is reset and, in the AbortController variant, currentAbortController is
\* null; the click that starts a run leaves no cancellation signal set; and
\* in the AbortController variant a click on cancel while no run is active
\* changes nothing.
Inv_C26_EndsReset ==
    /\ [](pc = "idle" =>
             /\ ~loading
             /\ variant = "controller" => currentAbortController = "null")
    /\ [][(AnalyzeChecker \/ AnalyzeGenerator) =>
              ~isProcessingCancelled' /\ currentAbortController' # "aborted"]_vars
    /\ [][(variant = "controller" /\ pc = "idle" /\ CancelClick) =>
              UNCHANGED vars]_vars

Wit_C26_EndsReset ==
    /\ variant = "controller" /\ pc = "idle" /\ outcome = "cancelled"
    /\ ~loading /\ currentAbortController = "null"
    /\ sent # <<>>

\* C26 as stated: in every variant a click on cancel while no run is active
\* changes no state.
Orig_C26_IdleCancelChangesNothing ==
    [][(pc = "idle" /\ CancelClick) => UNCHANGED vars]_vars

ProbingEndpoints == {"check-domain", "orchestrator", "stream"}

CheckHandlers == {"check-domain", "orchestrator", "check-domains"}

Endpoints == CheckHandlers \cup {"stream"}

Methods == {"POST", "GET", "OPTIONS"}

\* The lists a request body can carry (repetitions included).
RequestLists == {l \in CanonicalLists : Len(l) <= MaxProbes}

\* DNS response codes the resolver answers with: NOERROR, SERVFAIL, NXDOMAIN.
DnsStatus == {0, 2, 3}

\* What response.json() can find in the resolver's response body.
ResolverBodies ==
    {[kind |-> "json", hasStatus |-> TRUE, Status |-> n] : n \in DnsStatus}
    \cup {[kind |-> "json", hasStatus |-> FALSE, Status |-> 0],
          [kind |-> "undecodable", hasStatus |-> FALSE, Status |-> 0]}

NoBody == [kind |-> "none", hasStatus |-> FALSE, Status |-> 0]

\* A classification that takes every decoded answer for NXDOMAIN.
availabilityAlways(data) == "Available"

\* 'if (data.Status === 3) ... Available ... else Unavailable' on decoded data
availability(data) ==
    IF data.hasStatus /\ data.Status = 3 THEN "Available" ELSE "Unavailable"

\* setTimeout(() => controller.abort(), 3000), where the prober has one
HasTimer(e) == e \in {"check-domain", "orchestrator"}

\* domains.map(checkDomainAvailability): every call runs up to its fetch.
StartProbes(e, list) ==
    [k \in 1..Len(list) |->
        [domain |-> list[k], pc |-> "fetching",
         timer |-> IF HasTimer(e) THEN "armed" ELSE "none",
         elapsed |-> FALSE, data |-> NoBody, failure |-> "none",
         result |-> [domain |-> list[k], availability |-> "pending"]]]

Resolve(probe, value) ==
    [probe EXCEPT !.pc = "resolved", !.result.availability = value]

Respond(status, results) ==
    /\ response' = [status |-> status, results |-> results]
    /\ handlerPc' = "responded"

\* What the registrar can answer to the bulk request: per domain an item with
\* its 'available' flag, or no item (the registrar lists it under 'errors').
RegistrarItems(list) == [1..Len(list) -> {"available", "taken", "omitted"}]

RegistrarReplies(list) ==
    {[kind |-> "ok", items |-> m] : m \in RegistrarItems(list)}
    \cup {[kind |-> "not_ok", items |-> <<>>], [kind |-> "network_error", items |-> <<>>]}

\* data.domains.map(item => ({domain, availability: item.available ? ... }))
RegistrarResults(list, items) ==
    LET keep == [k \in 1..Len(list) |-> items[k] # "omitted"]
        idx  == SelectSeqBy([k \in 1..Len(list) |-> k], keep)
    IN  [k \in 1..Len(idx) |->
            [domain |-> list[idx[k]],
             availability |-> IF items[idx[k]] = "available" THEN "Available"
                              ELSE "Unavailable"]]

HandlerInit ==
    /\ variant = "controller" /\ BATCH_SIZE = 1 /\ currentMode = "checker"
    /\ domainInput = <<>>
    /\ PageLoaded
    /\ InputIdle
    /\ ReadIdle
    /\ ListIdle
    /\ endpoint \in Endpoints
    /\ credentials \in BOOLEAN
    /\ req \in [method : Methods, domains : RequestLists]
    \* a chunk of the streaming server's loop is never empty
    /\ endpoint = "stream" => req.method = "POST" /\ req.domains # <<>> /\ credentials
    /\ handlerPc = "received"
    /\ probes = <<>>
    /\ response = NoResponse

\* The handler from its first statement to its first await or its return.
HandleRequest ==
    /\ handlerPc = "received"
    /\ UNCHANGED <<pageVars, inputVars, readVars, listVars, endpoint, req, credentials>>
    /\ CASE endpoint = "check-domain" ->
                IF req.method # "POST" THEN Respond(405, <<>>) /\ UNCHANGED probes
                ELSE IF req.domains = <<>> THEN Respond(400, <<>>) /\ UNCHANGED probes
                ELSE /\ probes' = StartProbes(endpoint, req.domains)
                     /\ handlerPc' = "probing"
                     /\ UNCHANGED response
         [] endpoint = "orchestrator" ->
                IF req.method # "POST" THEN Respond(405, <<>>) /\ UNCHANGED probes
                ELSE IF ~credentials THEN Respond(500, <<>>) /\ UNCHANGED probes
                ELSE IF req.domains = <<>>
                     THEN \* an empty array passes the check of mode 'check'
                          Respond(200, <<>>) /\ UNCHANGED probes
                     ELSE /\ probes' = StartProbes(endpoint, req.domains)
                          /\ handlerPc' = "probing"
                          /\ UNCHANGED response
         [] endpoint = "check-domains" ->
                IF req.method = "OPTIONS" THEN Respond(200, <<>>) /\ UNCHANGED probes
                ELSE IF req.method # "POST" THEN Respond(405, <<>>) /\ UNCHANGED probes
                ELSE IF req.domains = <<>> THEN Respond(400, <<>>) /\ UNCHANGED probes
                ELSE IF ~credentials THEN Respond(500, <<>>) /\ UNCHANGED probes
                ELSE /\ handlerPc' = "upstream"
                     /\ UNCHANGED <<probes, response>>
         [] OTHER ->
                /\ probes' = StartProbes(endpoint, req.domains)
                /\ handlerPc' = "probing"
                /\ UNCHANGED response

\* fetch() of a probe resolves: the resolver's status line and headers are in.
\* The prober with a timer clears it here.
FetchResolves ==
    /\ handlerPc = "probing"
    /\ \E p \in 1..Len(probes) :
        /\ probes[p].pc = "fetching"
        /\ probes' = [probes EXCEPT ![p].pc = "reading",
                                    ![p].timer = IF @ = "armed" THEN "cleared" ELSE @]
    /\ UNCHANGED <<pageVars, inputVars, readVars, listVars, endpoint, req, credentials, handlerPc, response>>

\* fetch() of a probe rejects (DNS failure, connection reset, ...).
FetchRejects ==
    /\ handlerPc = "probing"
    /\ \E p \in 1..Len(probes) :
        /\ probes[p].pc = "fetching"
        /\ probes' = [probes EXCEPT
                         ![p] = Resolve([@ EXCEPT !.failure = "transport"], "Error")]
    /\ UNCHANGED <<pageVars, inputVars, readVars, listVars, endpoint, req, credentials, handlerPc, response>>

\* One timer and one controller for the whole batch: when the budget runs out
\* every probe still waiting for its fetch is aborted.
BudgetElapsesShared ==
    /\ handlerPc = "probing"
    /\ \E p \in 1..Len(probes) :
        /\ probes[p].pc # "resolved"
        /\ ~probes[p].elapsed
        /\ probes' = [q \in 1..Len(probes) |->
                          IF probes[p].timer = "armed" /\ probes[q].timer = "armed"
                             /\ probes[q].pc # "resolved"
                          THEN Resolve([probes[q] EXCEPT !.elapsed = (q = p) \/ @,
                                                         !.failure = "abort"], "Timeout")
                          ELSE IF q = p THEN [probes[q] EXCEPT !.elapsed = TRUE]
                          ELSE probes[q]]
    /\ UNCHANGED <<pageVars, inputVars, readVars, listVars, endpoint, req, credentials, handlerPc, response>>

\* The timeout budget of a pending probe runs out. An armed timer aborts the
\* fetch, which rejects with AbortError; otherwise nothing happens.
BudgetElapses ==
    /\ handlerPc = "probing"
    /\ \E p \in 1..Len(probes) :
        /\ probes[p].pc # "resolved"
        /\ ~probes[p].elapsed
        /\ probes' = [probes EXCEPT
                         ![p] = IF @.timer = "armed"
                                THEN Resolve([@ EXCEPT !.elapsed = TRUE,
                                                       !.failure = "abort"], "Timeout")
                                ELSE [@ EXCEPT !.elapsed = TRUE]]
    /\ UNCHANGED <<pageVars, inputVars, readVars, listVars, endpoint, req, credentials, handlerPc, response>>

\* 'await response.json()' of a probe settles.
BodyArrives ==
    /\ handlerPc = "probing"
    /\ \E p \in 1..Len(probes), body \in ResolverBodies :
        /\ probes[p].pc = "reading"
        /\ probes' = [probes EXCEPT
                         ![p] = IF body.kind = "json"
                                THEN Resolve([@ EXCEPT !.data = body], availability(body))
                                ELSE Resolve([@ EXCEPT !.data = body,
                                                       !.failure = "undecodable"],
                                             "Error")]
    /\ UNCHANGED <<pageVars, inputVars, readVars, listVars, endpoint, req, credentials, handlerPc, response>>

\* 'await Promise.all(checkPromises)' settles and the results are returned.
AllSettled ==
    /\ handlerPc = "probing"
    /\ \A p \in 1..Len(probes) : probes[p].pc = "resolved"
    /\ Respond(200, [p \in 1..Len(probes) |-> probes[p].result])
    /\ UNCHANGED <<pageVars, inputVars, readVars, listVars, endpoint, req, credentials, probes>>

\* The registrar's answer to the bulk request arrives (or the request fails).
RegistrarResponds ==
    /\ handlerPc = "upstream"
    /\ \E reply \in RegistrarReplies(req.domains) :
        IF reply.kind = "ok"
        THEN Respond(200, RegistrarResults(req.domains, reply.items))
        ELSE Respond(500, <<>>)
    /\ UNCHANGED <<pageVars, inputVars, readVars, listVars, endpoint, req, credentials, probes>>

HandlerNext ==
    \/ HandleRequest
    \/ FetchResolves
    \/ FetchRejects
    \/ BudgetElapses
    \/ BodyArrives
    \/ AllSettled
    \/ RegistrarResponds

HandlerSpec == HandlerInit /\ [][HandlerNext]_vars

\* ---------------------------------------------------- claims on the probes
\* C5: a probe that decoded a resolver response with Status 3 resolves to
\* 'Available', and one that decoded any other Status resolves to
\* 'Unavailable', whichever prober ran it.
Inv_C5_StatusClassification ==
    \A p \in 1..Len(probes) :
        (probes[p].pc = "resolved" /\ probes[p].data.kind = "json"
            /\ probes[p].data.hasStatus) =>
            probes[p].result.availability =
                IF probes[p].data.Status = 3 THEN "Available" ELSE "Unavailable"

Wit_C5_StatusClassification ==
    /\ endpoint = "stream"
    /\ \E p, q \in 1..Len(probes) :
        /\ probes[p].pc = "resolved" /\ probes[p].data.kind = "json"
        /\ probes[p].data.hasStatus /\ probes[p].data.Status = 3
        /\ probes[p].result.availability = "Available"
        /\ probes[q].pc = "resolved" /\ probes[q].data.kind = "json"
        /\ probes[q].data.hasStatus /\ probes[q].data.Status = 0
        /\ probes[q].result.availability = "Unavailable"

\* C6 as stated: a probe whose request has not completed when the timeout
\* budget runs out has resolved with 'Timeout'.
Orig_C6_BoundedByTimeout ==
    \A p \in 1..Len(probes) :
        probes[p].elapsed =>
            probes[p].pc = "resolved" /\ probes[p].result.availability = "Timeout"

\* A failure of the resolver request other than the timeout.
NonTimeoutFailure(probe) ==
    \/ probe.failure \in {"transport", "undecodable"}
    \/ probe.data.kind = "json" /\ ~probe.data.hasStatus

\* C7 as stated: a resolved probe carries its input domain and one of the four
\* availabilities, and 'Error' after a failure other than the timeout.
Orig_C7_FailureGivesError ==
    \A p \in 1..Len(probes) :
        probes[p].pc = "resolved" =>
            /\ probes[p].result.domain = req.domains[p]
            /\ probes[p].result.availability \in Availability
            /\ NonTimeoutFailure(probes[p]) => probes[p].result.availability = "Error"

\* C8 as stated: with the deployment's keys set, the answer of a check handler
\* to a POST with a non-empty domains array is a 200 with one result per input
\* domain, in input order.
Orig_C8_OneResultPerDomain ==
    (endpoint \in CheckHandlers /\ credentials /\ req.method = "POST"
        /\ req.domains # <<>> /\ handlerPc = "responded") =>
        /\ response.status = 200
        /\ Len(response.results) = Len(req.domains)
        /\ \A k \in 1..Len(response.results) :
               /\ response.results[k].domain = req.domains[k]
               /\ response.results[k].availability \in Availability


\* C18 as stated: a check handler answers a request that is not a POST with
\* 405 and a POST without a non-empty 'domains' array with 400.
Orig_C18_ErrorStatus ==
    (endpoint \in {"check-domain", "orchestrator"} /\ handlerPc = "responded") =>
        /\ req.method # "POST" => response.status = 405
        /\ (req.method = "POST" /\ credentials /\ req.domains = <<>>) =>
               response.status = 400

\* C23: a probe is aborted by its own timer only: a probe ends as 'Timeout'
\* exactly when it was aborted, and it was aborted only if its own budget ran
\* out while its own timer was armed; the other probes of the batch are free
\* to end in any other way.
Inv_C23_TimeoutPerProbe ==
    \A p \in 1..Len(probes) :
        /\ probes[p].failure = "abort" =>
               probes[p].elapsed /\ probes[p].timer = "armed"
        /\ probes[p].result.availability = "Timeout" <=> probes[p].failure = "abort"

Wit_C23_TimeoutPerProbe ==
    /\ handlerPc = "responded" /\ Len(probes) = 2
    /\ probes[1].result.availability = "Timeout" /\ probes[1].elapsed
    /\ probes[2].result.availability = "Available" /\ ~probes[2].elapsed
    /\ response.status = 200 /\ response.results[2].availability = "Available"

\* ================================================ the text of the text area
\* A text is a sequence of pieces. "x" is a lower-case name such as a.com,
\* "X" the same name typed with capitals, "S" the scheme https://, "W" the
\* label www., "LF" a line break. "s" is what is left of a scheme that was cut
\* at its first slash (https:); it is never typed, and it never meets a slash.
MaxChars == 5

InputSymbols == {"x", "X", " ", "/", "LF", "S", "W"}

Texts == UNION {[1..n -> InputSymbols] : n \in 0..MaxChars}

IsSpace(c) == c \in {" ", "LF"}

RECURSIVE trimStart(_)
trimStart(str) ==
    IF str # <<>> /\ IsSpace(Head(str)) THEN trimStart(Tail(str)) ELSE str

RECURSIVE trimEnd(_)
trimEnd(str) ==
    IF str # <<>> /\ IsSpace(str[Len(str)])
    THEN trimEnd(SubSeq(str, 1, Len(str) - 1))
    ELSE str

\* String.prototype.trim
trim(str) == trimEnd(trimStart(str))

\* String.prototype.toLowerCase
toLowerCase(str) == [k \in 1..Len(str) |-> IF str[k] = "X" THEN "x" ELSE str[k]]

\* replace(/^(https?:\/\/)?(www\.)?/, ''): at most one scheme, then at most
\* one www., both at the very start
stripPrefix(str) ==
    LET a == IF str # <<>> /\ Head(str) = "S" THEN Tail(str) ELSE str
    IN  IF a # <<>> /\ Head(a) = "W" THEN Tail(a) ELSE a

\* split('/')[0]: a scheme that was not stripped is cut at its first slash
RECURSIVE beforeSlash(_)
beforeSlash(str) ==
    IF str = <<>> \/ Head(str) = "/" THEN <<>>
    ELSE IF Head(str) = "S" THEN <<"s">>
    ELSE <<Head(str)>> \o beforeSlash(Tail(str))

normalizeDomain(domainStr) == beforeSlash(stripPrefix(toLowerCase(trim(domainStr))))

\* split('\n'): the empty text gives one empty line
RECURSIVE splitLines(_)
splitLines(str) ==
    IF \A k \in 1..Len(str) : str[k] # "LF" THEN <<str>>
    ELSE LET at == CHOOSE k \in 1..Len(str) :
                       str[k] = "LF" /\ \A j \in 1..(k - 1) : str[j] # "LF"
         IN  <<SubSeq(str, 1, at - 1)>> \o splitLines(SubSeq(str, at + 1, Len(str)))

\* join('\n')
RECURSIVE joinLines(_)
joinLines(list) ==
    IF list = <<>> THEN <<>>
    ELSE IF Len(list) = 1 THEN list[1]
    ELSE list[1] \o <<"LF">> \o joinLines(Tail(list))

\* .map(d => d.trim())
trimAll(list) == [k \in 1..Len(list) |-> trim(list[k])]

\* .map(normalizeDomain)
normalizeAll(list) == [k \in 1..Len(list) |-> normalizeDomain(list[k])]

\* domainInput.value.split('\n').map(d => d.trim()).filter(Boolean)
rawDomains(value) ==
    SelectSeq(trimAll(splitLines(value)), LAMBDA d : d # <<>>)

\* The same list without the Set.
checkerDomainsNoSet(value) == normalizeAll(rawDomains(value))

\* [...new Set(rawDomains.map(normalizeDomain))]
checkerDomains(value) == Dedupe(normalizeAll(rawDomains(value)))

InputInit ==
    /\ variant = "controller" /\ BATCH_SIZE = 1 /\ currentMode = "checker"
    /\ domainInput = <<>>
    /\ PageLoaded
    /\ BackendIdle
    /\ ReadIdle
    /\ ListIdle
    /\ inputValue \in Texts
    /\ inputPc = "editing"
    /\ handed = <<>>
    /\ blurred = FALSE

\* The text area loses the focus.
Blur ==
    /\ inputPc = "editing"
    /\ rawDomains(inputValue) # <<>>
    /\ inputValue' = joinLines(checkerDomains(inputValue))
    /\ blurred' = TRUE
    /\ UNCHANGED <<pageVars, backendVars, readVars, listVars, inputPc, handed>>

\* analyzeButton click in checker mode, up to the alert or to the list that
\* goes into the batch loop (whose first request follows at once).
AnalyzeInput ==
    /\ inputPc = "editing"
    /\ LET list == checkerDomains(inputValue)
       IN  IF Len(list) = 0
           THEN inputPc' = "rejected" /\ handed' = <<>>
           ELSE inputPc' = "requested" /\ handed' = list
    /\ UNCHANGED <<pageVars, backendVars, readVars, listVars, inputValue, blurred>>

\* The click handler has returned; the text can be edited again.
InputReturns ==
    /\ inputPc \in {"rejected", "requested"}
    /\ inputPc' = "editing"
    /\ UNCHANGED <<pageVars, backendVars, readVars, listVars, inputValue, handed, blurred>>

InputNext == Blur \/ AnalyzeInput \/ InputReturns

InputSpec == InputInit /\ [][InputNext]_vars

\* ----------------------------------------------------- claims on the input
\* C14 as stated: normalizeDomain is idempotent; a line that the blur handler
\* wrote is left as it is by a second normalizeDomain.
Orig_C14_NormalizeIdempotent ==
    blurred => \A k \in 1..Len(splitLines(inputValue)) :
                   normalizeDomain(splitLines(inputValue)[k]) = splitLines(inputValue)[k]

\* lower-case, non-empty, no scheme prefix, no leading www., no slash
TokenInvariant(t) ==
    /\ t # <<>>
    /\ \A k \in 1..Len(t) : t[k] \notin {"X", "/"}
    /\ t # <<>> => Head(t) \notin {"S", "W"}

\* C15 as stated: every token handed to the batch loop in checker mode
\* satisfies the token invariant.
Orig_C15_TokenInvariant ==
    \A k \in 1..Len(handed) : TokenInvariant(handed[k])

\* C16: the list handed to the batch loop holds each normalized token once,
\* in the order of the first line that normalizes to it.
Inv_C16_CheckerDedupe ==
    inputPc = "requested" =>
        LET all == normalizeAll(rawDomains(inputValue))
        IN  /\ IsInjective(handed)
            /\ Range(handed) = Range(all)
            /\ \A p, q \in 1..Len(handed) :
                   p < q =>
                       (CHOOSE a \in 1..Len(all) :
                            all[a] = handed[p] /\ \A b \in 1..(a - 1) : all[b] # handed[p])
                       < (CHOOSE a \in 1..Len(all) :
                            all[a] = handed[q] /\ \A b \in 1..(a - 1) : all[b] # handed[q])

Wit_C16_CheckerDedupe ==
    /\ inputPc = "requested"
    /\ Len(rawDomains(inputValue)) = 3
    /\ Len(handed) = 2
    /\ handed[1] = <<"x">>
    /\ rawDomains(inputValue)[1] # rawDomains(inputValue)[3]
    /\ normalizeDomain(rawDomains(inputValue)[3]) = <<"x">>

\* C19 as stated: a click on a text with no usable domain in it issues no
\* request.
Orig_C19_NoRequestOnInvalidInput ==
    inputPc = "requested" => \E k \in 1..Len(handed) : handed[k] # <<>>


\* ==================================================== the bytes of a stream
\* A stream is a sequence of pieces. A frame is the piece "data: ", a body of
\* JSON text in two pieces (so that the network can cut it) and two line
\* breaks; JSON.stringify leaves no line break inside the body.
MaxFrames == 3

Payloads == <<"{1", "{2", "{3", "{4">>

\* `data: ${jsonString}\n\n`
encode(k) == <<"data: ", Payloads[k], "}", "LF", "LF">>

RECURSIVE encodeAll(_, _)
encodeAll(from, to) ==
    IF from > to THEN <<>> ELSE encode(from) \o encodeAll(from + 1, to)

\* buffer.split('\n\n')
RECURSIVE splitOnBlankLine(_)
splitOnBlankLine(str) ==
    LET at == {k \in 1..(Len(str) - 1) : str[k] = "LF" /\ str[k + 1] = "LF"}
    IN  IF at = {} THEN <<str>>
        ELSE LET k == CHOOSE m \in at : \A j \in at : m <= j
             IN  <<SubSeq(str, 1, k - 1)>>
                 \o splitOnBlankLine(SubSeq(str, k + 2, Len(str)))

\* A read loop that forgets the incomplete line.
popDropped(lines) == <<>>

\* lines.pop(): the last, possibly incomplete, line
pop(lines) == lines[Len(lines)]

\* JSON.parse(line.substring(6)), which throws on text that is not JSON
parseFrame(line) ==
    IF Len(line) = 3 /\ line[3] = "}" /\ \E k \in 1..Len(Payloads) : Payloads[k] = line[2]
    THEN [threw |-> FALSE,
          id |-> CHOOSE k \in 1..Len(Payloads) : Payloads[k] = line[2]]
    ELSE [threw |-> TRUE, id |-> 0]

\* for (const line of lines) { if (line.startsWith('data: ')) ... }
RECURSIVE handleLines(_)
handleLines(lines) ==
    IF lines = <<>> THEN [threw |-> FALSE, ids |-> <<>>]
    ELSE IF Head(lines) = <<>> \/ Head(Head(lines)) # "data: "
         THEN handleLines(Tail(lines))
         ELSE LET f == parseFrame(Head(lines))
                  r == handleLines(Tail(lines))
              IN  IF f.threw THEN [threw |-> TRUE, ids |-> <<>>]
                  ELSE [threw |-> r.threw, ids |-> <<f.id>> \o r.ids]

\* A loop that never looks at the flag.
loopTopBlind(flag) == "reading"

\* if (isProcessingCancelled) { reader.cancel(...); ...; break; }
loopTop(flag) == IF flag THEN "cancelled" ELSE "reading"

pageVarsButFlag ==
    <<variant, BATCH_SIZE, domainInput, currentMode, pc, domains, i,
      checkedCount, allAvailableDomains, isCancelled, currentAbortController,
      loading, placeholder, summary, resultsView, actionsShown, inflight, server,
      frames, outcome, sent, reported, probed, lateStart, cancelBeforeFirst,
      catCall, genCall, lastWritten, lingering>>

\* The response has arrived and the handler is at its first reader.read().
ReadInit ==
    /\ variant = "streamBatch" /\ BATCH_SIZE = 1 /\ currentMode = "checker"
    /\ domainInput = <<>>
    /\ PageLoaded
    /\ BackendIdle
    /\ InputIdle
    /\ ListIdle
    /\ streamFrames \in {[k \in 1..n |-> k] : n \in 0..MaxFrames}
    /\ nWritten = 0
    /\ wire = <<>>
    /\ buffer = <<>>
    /\ handled = <<>>
    /\ readPc = "reading"
    /\ readsAfterCancel = 0

\* writeToStream on the server. Bytes written after the reader was cancelled
\* go nowhere.
ServerWrites ==
    /\ nWritten < Len(streamFrames)
    /\ nWritten' = nWritten + 1
    /\ wire' = IF readPc = "reading" THEN wire \o encode(streamFrames[nWritten + 1])
               ELSE wire
    /\ UNCHANGED <<pageVars, backendVars, inputVars, listVars, streamFrames, buffer, handled,
                   readPc, readsAfterCancel>>

\* 'await reader.read()' yields a chunk, any non-empty start of the bytes
\* under way; the loop body runs, then the top of the loop.
ReadYields ==
    /\ readPc = "reading"
    /\ \E n \in 1..Len(wire) :
        LET lines == splitOnBlankLine(buffer \o SubSeq(wire, 1, n))
            r     == handleLines(SubSeq(lines, 1, Len(lines) - 1))
            next  == IF r.threw THEN "failed" ELSE loopTop(isProcessingCancelled)
        IN  /\ buffer' = pop(lines)
            /\ handled' = handled \o r.ids
            /\ readPc' = next
            /\ wire' = IF next = "reading" THEN SubSeq(wire, n + 1, Len(wire)) ELSE <<>>
    /\ readsAfterCancel' = readsAfterCancel + (IF isProcessingCancelled THEN 1 ELSE 0)
    /\ UNCHANGED <<pageVars, backendVars, inputVars, listVars, streamFrames, nWritten>>

\* 'await reader.read()' yields done: the server has closed the stream.
ReadDone ==
    /\ readPc = "reading"
    /\ wire = <<>> /\ nWritten = Len(streamFrames)
    /\ readPc' = "done"
    /\ UNCHANGED <<pageVars, backendVars, inputVars, listVars, streamFrames, nWritten, wire,
                   buffer, handled, readsAfterCancel>>

\* cancelButton click while the handler awaits a read.
CancelDuringRead ==
    /\ readPc = "reading"
    /\ ~isProcessingCancelled
    /\ isProcessingCancelled' = TRUE
    /\ UNCHANGED <<pageVarsButFlag, backendVars, inputVars, readVars, listVars>>

ReadNext == ServerWrites \/ ReadYields \/ ReadDone \/ CancelDuringRead

ReadSpec == ReadInit /\ [][ReadNext]_vars

\* ---------------------------------------------------- claims on the stream
\* C27: while the run is not cancelled, the events handled are the first
\* frames written, in the order written and once each; the bytes not yet
\* consumed are exactly the frames that follow, so that a frame cut by the
\* network is put together again; and at the end of the stream every frame
\* has been handled.
Inv_C27_FramesHandledOnce ==
    ~isProcessingCancelled =>
        /\ readPc # "failed"
        /\ Len(handled) <= nWritten
        /\ handled = SubSeq(streamFrames, 1, Len(handled))
        /\ buffer \o wire = encodeAll(Len(handled) + 1, nWritten)
        /\ readPc = "done" => handled = streamFrames

Wit_C27_FramesHandledOnce ==
    /\ ~isProcessingCancelled /\ readPc = "reading"
    /\ handled = <<1>>
    /\ buffer = <<"data: ", "{2">>
    /\ wire = <<"}", "LF", "LF">>

\* C28: after the flag is set at most one read is handled, then the loop is
\* left with the reader cancelled, and no event is handled afterwards.
Inv_C28_ReadLoopStops ==
    /\ [](readsAfterCancel <= 1)
    /\ [](readPc = "cancelled" => isProcessingCancelled /\ wire = <<>>)
    /\ [][readPc = "cancelled" => handled' = handled /\ readPc' = "cancelled"]_vars

Wit_C28_ReadLoopStops ==
    /\ readPc = "cancelled" /\ readsAfterCancel = 1
    /\ handled = <<1>> /\ nWritten = 2

\* ============================================ the whole-list stream handler
\* JSON.stringify({ event, data }) for the events of this handler
SseFrame(event) == [event |-> event, domain |-> "", availability |-> "", domains |-> <<>>]

ListFrame(list) == [SseFrame("domain_list") EXCEPT !.domains = list]

ResultFrame(result) ==
    [SseFrame("domain_result") EXCEPT !.domain = result.domain,
                                   !.availability = result.availability]

\* What checkDomainAvailability of this handler can return: it has no timer.
ListAvailability == {"Available", "Unavailable", "Error"}

\* A handler that does not wait for its checks.
PromiseNone(pending) == TRUE

\* await Promise.all(checkPromises)
PromiseAll(pending) == pending = {}

\* The catch and the finally of the stream start.
StreamThrows(w) ==
    /\ written' = w \o <<SseFrame("error")>>
    /\ startPc' = "closed"
    /\ UNCHANGED <<domainsToCheck, checkPromises>>

\* From the length test to the mapping of the list onto its checks.
CheckList(list, w) ==
    IF list = <<>> THEN StreamThrows(w)
    ELSE /\ domainsToCheck' = list
         /\ written' = w \o <<ListFrame(list), SseFrame("status")>>
         /\ checkPromises' = 1..Len(list)
         /\ startPc' = "checking"

\* A POST with a body has been parsed and the stream start is about to run.
ListInit ==
    /\ variant = "controller" /\ BATCH_SIZE = 1 /\ currentMode = "checker"
    /\ domainInput = <<>>
    /\ PageLoaded
    /\ BackendIdle
    /\ InputIdle
    /\ ReadIdle
    /\ streamReq \in [mode : {"checker", "generator"}, list : CanonicalLists,
                      fails : {"no", "fields", "model"}]
    /\ streamReq.mode = "checker" => streamReq.fails = "no"
    /\ domainsToCheck = <<>>
    /\ written = <<>>
    /\ checkPromises = {}
    /\ startPc = "start"

\* start(controller) up to its first await.
StreamStart ==
    /\ startPc = "start"
    /\ IF streamReq.mode = "generator"
       THEN IF streamReq.fails = "fields" THEN StreamThrows(written)
            ELSE /\ written' = written \o <<SseFrame("status")>>
                 /\ startPc' = "generating"
                 /\ UNCHANGED <<domainsToCheck, checkPromises>>
       ELSE CheckList(streamReq.list, written)
    /\ UNCHANGED <<pageVars, backendVars, inputVars, readVars, streamReq>>

\* ai.models.generateContent settles.
GenerateContentSettles ==
    /\ startPc = "generating"
    /\ IF streamReq.fails = "model" THEN StreamThrows(written)
       ELSE CheckList(Dedupe(streamReq.list), written)
    /\ UNCHANGED <<pageVars, backendVars, inputVars, readVars, streamReq>>

\* One checkDomainAvailability(domain) settles and its .then writes the frame.
CheckSettles ==
    /\ startPc = "checking"
    /\ \E k \in checkPromises, a \in ListAvailability :
        /\ written' = written \o
               <<ResultFrame([domain |-> domainsToCheck[k], availability |-> a])>>
        /\ checkPromises' = checkPromises \ {k}
    /\ UNCHANGED <<pageVars, backendVars, inputVars, readVars, streamReq,
                   domainsToCheck, startPc>>

\* Promise.all resumes the stream start, which writes 'finished' and closes.
ChecksAllSettled ==
    /\ startPc = "checking"
    /\ PromiseAll(checkPromises)
    /\ written' = written \o <<SseFrame("finished")>>
    /\ startPc' = "closed"
    /\ UNCHANGED <<pageVars, backendVars, inputVars, readVars, streamReq,
                   domainsToCheck, checkPromises>>

ListNext == StreamStart \/ GenerateContentSettles \/ CheckSettles \/ ChecksAllSettled

ListSpec == ListInit /\ [][ListNext]_vars

\* ------------------------------------------- claims on the whole-list stream
\* The 'domain_result' frames for domain d among the first n frames written.
ResultFrames(d, n) ==
    Cardinality({k \in 1..n : written[k].event = "domain_result" /\ written[k].domain = d})

============================================================================
